---- MODULE Spec2Model ----
(***************************************************************************)
(* A model of src/script.js, the Nifty 50 price tracker: the market-hours  *)
(* calendar, the live / last-trading-day / mock data pipeline run by each  *)
(* call of fetchNiftyPrice, the localStorage cache, the render functions   *)
(* and the bounded price history.                                          *)
(*                                                                         *)
(* Numbers.  Every JavaScript number is an integer count of thousandths    *)
(* ("mills"): 24280.50 is 24280500.  toFixed(2) and toLocaleString with    *)
(* two fraction digits round a value to a multiple of 10 mills.  A value   *)
(* that may be undefined is a record [t, v].                               *)
(***************************************************************************)
EXTENDS Integers, Sequences, FiniteSets, TLC

VARIABLES
    now,           \* the wall clock (UTC): what new Date() returns
    loaded,        \* DOMContentLoaded has run
    statusText,    \* the market status indicator of the page
    localStorage,  \* the value under the key 'lastTradingDayData'
    currentData,   \* script.js:11
    priceHistory,  \* script.js:9
    dom,           \* the text of the page's quote elements
    chart,         \* script.js:22, with the labels of its last update
    ticks,         \* the invocations of fetchNiftyPrice, by order of start
    call,          \* a single call of one function: its argument and result
    appended       \* history variable: every price given to addToHistory

vars == <<now, loaded, statusText, localStorage, currentData, priceHistory,
          dom, chart, ticks, call, appended>>

(***************************************************************************)
(* Bounds of the model.                                                    *)
(***************************************************************************)
MaxTicks == 2
MaxAppends == 25
MaxClosedTicks == 4
MaxTimerTicks == 3

(***************************************************************************)
(* Arithmetic on mills.                                                    *)
(***************************************************************************)
Abs(x) == IF x < 0 THEN -x ELSE x

Sign(x) == IF x < 0 THEN -1 ELSE 1

\* The integer nearest to a / b (b > 0), halves away from zero.
RoundDiv(a, b) ==
    LET q == Abs(a) \div b
        r == Abs(a) % b
    IN  Sign(a) * (IF 2 * r >= b THEN q + 1 ELSE q)

\* Number.prototype.toFixed(2) followed by parseFloat: mills to mills.
toFixed2(x) == RoundDiv(x, 10) * 10

\* floor(|a| * 10^k / b) for b > 0, one decimal digit at a time.
RECURSIVE ScaledQuot(_, _, _)
ScaledQuot(a, b, k) ==
    IF k = 0 THEN [q |-> a \div b, r |-> a % b]
    ELSE LET p == ScaledQuot(a, b, k - 1)
         IN  [q |-> p.q * 10 + (p.r * 10) \div b, r |-> (p.r * 10) % b]

\* (a / b) * 100 rounded to two decimals, in mills of a percent (b # 0).
PercentFixed2(a, b) ==
    LET s == ScaledQuot(Abs(a), Abs(b), 4)
        n == IF 2 * s.r >= Abs(b) THEN s.q + 1 ELSE s.q
    IN  Sign(a) * Sign(b) * n * 10

(***************************************************************************)
(* JavaScript values.                                                      *)
(***************************************************************************)
Num(v) == [t |-> "number", v |-> v]

Undefined == [t |-> "undefined", v |-> 0]

IsNum(x) == x.t = "number"

\* x || d for a numeric default d: undefined and 0 are falsy.
OrDefault(x, d) == IF IsNum(x) /\ x.v # 0 THEN x ELSE Num(d)

QuoteFields == {"price", "change", "changePercent", "high", "low", "open", "close"}

Quote(p, ch, cp, h, l, o, c, last) ==
    [kind |-> "object", price |-> p, change |-> ch, changePercent |-> cp,
     high |-> h, low |-> l, open |-> o, close |-> c, isLastTradingDay |-> last]

Null ==
    [kind |-> "null", price |-> Undefined, change |-> Undefined,
     changePercent |-> Undefined, high |-> Undefined, low |-> Undefined,
     open |-> Undefined, close |-> Undefined, isLastTradingDay |-> FALSE]

\* An object carrying the seven numeric fields of a quote.
IsValidRecord(d) ==
    /\ d.kind = "object"
    /\ \A f \in QuoteFields : IsNum(d[f])

(***************************************************************************)
(* isMarketOpen, script.js:42-59.                                          *)
(***************************************************************************)
MinutesPerDay == 1440
IstOffsetMinutes == 330

\* new Date(now.toLocaleString('en-US', {timeZone: 'Asia/Kolkata'})): the
\* wall clock of UTC+05:30, with days 0 (Sunday) to 6 (Saturday).
istTime(t) ==
    LET m == t.minute + IstOffsetMinutes
        d == IF m >= MinutesPerDay THEN (t.day + 1) % 7 ELSE t.day
        mm == m % MinutesPerDay
    IN  [day |-> d, hours |-> mm \div 60, minutes |-> mm % 60]

marketOpenTime == 9 * 60 + 15

marketCloseTime == 15 * 60 + 30

isMarketOpenInclusive(t) ==
    LET ist == istTime(t)
        timeInMinutes == ist.hours * 60 + ist.minutes
        isWeekday == ist.day >= 1 /\ ist.day <= 5
    IN  isWeekday /\ timeInMinutes >= marketOpenTime /\ timeInMinutes <= marketCloseTime

isMarketOpen(t) ==
    LET ist == istTime(t)
        timeInMinutes == ist.hours * 60 + ist.minutes
        isWeekday == ist.day >= 1 /\ ist.day <= 5
    IN  isWeekday /\ timeInMinutes >= marketOpenTime /\ timeInMinutes < marketCloseTime

(***************************************************************************)
(* The page: the text of the quote elements, written in the order of       *)
(* updateUI and updateUIWithLastTradingDay.                                *)
(***************************************************************************)
Text(s, v) == [s |-> s, v |-> v]

Blank == Text("", 0)

\* toLocaleString('en-IN', two fraction digits): hundredths, halves away
\* from zero.
toLocaleString2(x) == Text("number", RoundDiv(x.v, 10))

\* The arrow and Math.abs(x).toFixed(2): undefined >= 0 is false and
\* Math.abs(undefined) is NaN.
percentText(x) ==
    IF IsNum(x)
    THEN Text(IF x.v >= 0 THEN "up" ELSE "down", RoundDiv(Abs(x.v), 10))
    ELSE Text("downNaN", 0)

BlankDom ==
    [price |-> Blank, changeValue |-> Blank, changePercent |-> Blank,
     high |-> Blank, low |-> Blank, open |-> Blank, close |-> Blank,
     lastUpdated |-> ""]

\* The fields of a quote in the order the render functions read them; only
\* changePercent is read without a method call on it.
RenderOrder == <<"price", "change", "changePercent", "high", "low", "open", "close">>

DomElement(f) == IF f = "change" THEN "changeValue" ELSE f

\* The first position of RenderOrder at which reading the quote throws a
\* TypeError, or 8 when the render runs to its end.
ThrowAt(data) ==
    LET bad == {i \in 1..7 : /\ RenderOrder[i] # "changePercent"
                             /\ ~IsNum(data[RenderOrder[i]])}
    IN  IF data.kind = "null" THEN 1
        ELSE IF bad = {} THEN 8
        ELSE CHOOSE i \in bad : \A j \in bad : i <= j

(***************************************************************************)
(* addToHistory, script.js:386-391.                                        *)
(***************************************************************************)
maxHistoryLength == 20

addToHistoryPop(history, price) ==
    LET pushed == Append(history, price)
    IN  IF Len(pushed) > maxHistoryLength
        THEN SubSeq(pushed, 1, Len(pushed) - 1)
        ELSE pushed

addToHistory(history, price) ==
    LET pushed == Append(history, price)
    IN  IF Len(pushed) > maxHistoryLength THEN Tail(pushed) ELSE pushed

(***************************************************************************)
(* updateUI (script.js:325-381) and updateUIWithLastTradingDay             *)
(* (script.js:80-136) differ only in the text of lastUpdated.  The result  *)
(* is the state the call leaves, and whether it threw.                     *)
(***************************************************************************)
Render(data, suffix, d, h, a, c) ==
    LET at == ThrowAt(data)
        done == at = 8
        newDom ==
            [e \in DOMAIN BlankDom |->
                IF e = "lastUpdated"
                THEN (IF done THEN suffix ELSE d[e])
                ELSE LET i == CHOOSE k \in 1..7 : DomElement(RenderOrder[k]) = e
                     IN  IF i >= at THEN d[e]
                         ELSE IF e = "changePercent" THEN percentText(data[e])
                         ELSE toLocaleString2(data[RenderOrder[i]])]
        newHistory == IF done THEN addToHistory(h, data.price.v) ELSE h
    IN  [threw |-> ~done,
         currentData |-> data,
         dom |-> newDom,
         priceHistory |-> newHistory,
         appended |-> IF done THEN Append(a, data.price.v) ELSE a,
         \* updateChart, script.js:396-468
         chart |-> IF done THEN [created |-> TRUE, labels |-> Len(newHistory)] ELSE c]

updateUI(data, d, h, a, c) == Render(data, "time", d, h, a, c)

updateUIWithLastTradingDay(data, d, h, a, c) ==
    Render(data, "time (Last Trading Day)", d, h, a, c)

(***************************************************************************)
(* localStorage, JSON.stringify and JSON.parse.                            *)
(***************************************************************************)
Absent == [kind |-> "absent", value |-> Null]

\* A stored string that is not JSON.
Corrupt == [kind |-> "corrupt", value |-> Null]

\* The record this program builds has no undefined field, so the text keeps
\* every field.
JSONstringify(data) == [kind |-> "json", value |-> data]

\* JSON.parse: the value, or a SyntaxError.
JSONparse(s) ==
    IF s.kind = "json" THEN [threw |-> FALSE, value |-> s.value]
    ELSE [threw |-> TRUE, value |-> Null]

(***************************************************************************)
(* getDefaultLastTradingDayData, script.js:277-288.                        *)
(***************************************************************************)
getDefaultLastTradingDayData ==
    Quote(Num(24280500), Num(150250), Num(620), Num(24450750), Num(23950000),
          Num(24100000), Num(24280500), TRUE)

(***************************************************************************)
(* The responses of the two remote providers.  A field of a payload is     *)
(* missing, an object without raw, or {raw: number}.                       *)
(***************************************************************************)
Missing == [t |-> "missing", v |-> 0]

NoRaw == [t |-> "noraw", v |-> 0]

Raw(v) == [t |-> "number", v |-> v]

\* x.raw of a field that is there, x?.raw of any field.
rawOf(x) == IF x.t = "number" THEN Num(x.v) ELSE Undefined

LiveFields ==
    {"regularMarketPrice", "regularMarketChange", "regularMarketChangePercent",
     "regularMarketDayHigh", "regularMarketDayLow", "regularMarketOpen",
     "regularMarketPreviousClose"}

HistFields ==
    {"regularMarketPrice", "regularMarketChange", "regularMarketChangePercent",
     "fiftyTwoWeekHigh", "fiftyTwoWeekLow", "regularMarketOpen",
     "regularMarketPreviousClose"}

LivePayload(p, ch, cp, h, l, o, c) ==
    [regularMarketPrice |-> p, regularMarketChange |-> ch,
     regularMarketChangePercent |-> cp, regularMarketDayHigh |-> h,
     regularMarketDayLow |-> l, regularMarketOpen |-> o,
     regularMarketPreviousClose |-> c]

HistPayload(p, ch, cp, h, l, o, c) ==
    [regularMarketPrice |-> p, regularMarketChange |-> ch,
     regularMarketChangePercent |-> cp, fiftyTwoWeekHigh |-> h,
     fiftyTwoWeekLow |-> l, regularMarketOpen |-> o,
     regularMarketPreviousClose |-> c]

NoLivePayload == LivePayload(Missing, Missing, Missing, Missing, Missing, Missing, Missing)

NoHistPayload == HistPayload(Missing, Missing, Missing, Missing, Missing, Missing, Missing)

\* kind: "throw" (fetch rejects), "notok" (response.ok is false), "badjson"
\* (response.json() rejects), "noresult" (quoteSummary.result[0], or its
\* price, is not there), "payload".
Response(kind, payload) == [kind |-> kind, p |-> payload]

\* A live quote with unrounded values, as the provider sends them.
FullLivePayload ==
    LivePayload(Raw(24312346), Raw(31846), Raw(131), Raw(24401003), Raw(24188507),
                Raw(24250001), Raw(24280503))

\* The responses to the live request that the pipeline is run on.
LiveResponses ==
    { Response("throw", NoLivePayload),
      Response("notok", NoLivePayload),
      Response("badjson", NoLivePayload),
      Response("noresult", NoLivePayload),
      Response("payload", FullLivePayload),
      Response("payload", [FullLivePayload EXCEPT !.regularMarketDayLow = Missing]),
      Response("payload", [FullLivePayload EXCEPT !.regularMarketChange = NoRaw]) }

FullHistPayload ==
    HistPayload(Raw(24301250), Raw(-20750), Raw(-85), Raw(26277350), Raw(21743650),
                Raw(24322000), Raw(24322000))

\* The responses to the historical request that the pipeline is run on.
HistResponses ==
    { Response("throw", NoHistPayload),
      Response("notok", NoHistPayload),
      Response("badjson", NoHistPayload),
      Response("noresult", NoHistPayload),
      Response("payload", FullHistPayload),
      Response("payload", [NoHistPayload EXCEPT !.regularMarketPrice = Raw(24301250)]) }

(***************************************************************************)
(* tryFetchFromFinance, script.js:191-215, from the response to its fetch. *)
(* Reading .raw of a missing field throws inside the try, so the function  *)
(* returns null; a field without raw gives undefined.                      *)
(***************************************************************************)
tryFetchFromFinance(resp) ==
    IF resp.kind = "payload" /\ \A f \in LiveFields : resp.p[f].t # "missing"
    THEN Quote(rawOf(resp.p.regularMarketPrice), rawOf(resp.p.regularMarketChange),
               rawOf(resp.p.regularMarketChangePercent),
               rawOf(resp.p.regularMarketDayHigh), rawOf(resp.p.regularMarketDayLow),
               rawOf(resp.p.regularMarketOpen),
               rawOf(resp.p.regularMarketPreviousClose), FALSE)
    ELSE Null

\* fetchLastTradingDayFromAPI with a store of the default record added to
\* its failure paths.
fetchLastTradingDayFromAPIStoreOnFailure(resp, stored) ==
    IF resp.kind = "payload"
    THEN LET priceData ==
                 Quote(OrDefault(rawOf(resp.p.regularMarketPrice), 24250000),
                       OrDefault(rawOf(resp.p.regularMarketChange), 0),
                       OrDefault(rawOf(resp.p.regularMarketChangePercent), 0),
                       OrDefault(rawOf(resp.p.fiftyTwoWeekHigh), 25000000),
                       OrDefault(rawOf(resp.p.fiftyTwoWeekLow), 23000000),
                       OrDefault(rawOf(resp.p.regularMarketOpen), 24000000),
                       OrDefault(rawOf(resp.p.regularMarketPreviousClose), 24250000),
                       TRUE)
         IN  [value |-> priceData, stored |-> JSONstringify(priceData)]
    ELSE [value |-> Null, stored |-> JSONstringify(getDefaultLastTradingDayData)]

(***************************************************************************)
(* fetchLastTradingDayFromAPI, script.js:242-272, from the response to its *)
(* fetch: the record it returns (null on any failure) and the value it     *)
(* leaves in localStorage.                                                 *)
(***************************************************************************)
fetchLastTradingDayFromAPI(resp, stored) ==
    IF resp.kind = "payload"
    THEN LET priceData ==
                 Quote(OrDefault(rawOf(resp.p.regularMarketPrice), 24250000),
                       OrDefault(rawOf(resp.p.regularMarketChange), 0),
                       OrDefault(rawOf(resp.p.regularMarketChangePercent), 0),
                       OrDefault(rawOf(resp.p.fiftyTwoWeekHigh), 25000000),
                       OrDefault(rawOf(resp.p.fiftyTwoWeekLow), 23000000),
                       OrDefault(rawOf(resp.p.regularMarketOpen), 24000000),
                       OrDefault(rawOf(resp.p.regularMarketPreviousClose), 24250000),
                       TRUE)
         IN  [value |-> priceData, stored |-> JSONstringify(priceData)]
    ELSE [value |-> Null, stored |-> stored]

\* The open-market branch of generateMockData with high and low taken
\* without the 100 of lines 312-313.
mockQuoteNarrowSpread(cd, u1, u2, u3, u4) ==
    LET basePrice == OrDefault(cd.price, 24250000).v
        variation == u1 - 100000
        currentPrice == basePrice + variation
        previousClose == OrDefault(cd.close, basePrice).v
        change == currentPrice - previousClose
    IN  Quote(Num(toFixed2(currentPrice)),
              Num(toFixed2(change)),
              Num(PercentFixed2(change, previousClose)),
              Num(toFixed2(currentPrice + u2)),
              Num(toFixed2(currentPrice - u3)),
              Num(toFixed2(currentPrice + (u4 - 75000))),
              Num(previousClose), FALSE)

(***************************************************************************)
(* The open-market branch of generateMockData, script.js:299-316, for the  *)
(* four values Math.random() returns: u1 / 200000, u2 / 50000, u3 / 50000  *)
(* and u4 / 150000, so that each product is a whole number of mills.       *)
(***************************************************************************)
mockQuote(cd, u1, u2, u3, u4) ==
    LET basePrice == OrDefault(cd.price, 24250000).v
        variation == u1 - 100000
        currentPrice == basePrice + variation
        previousClose == OrDefault(cd.close, basePrice).v
        change == currentPrice - previousClose
    IN  Quote(Num(toFixed2(currentPrice)),
              Num(toFixed2(change)),
              Num(PercentFixed2(change, previousClose)),
              Num(toFixed2(currentPrice + 100000 + u2)),
              Num(toFixed2(currentPrice - 100000 - u3)),
              Num(toFixed2(currentPrice + (u4 - 75000))),
              Num(previousClose), FALSE)

\* The values of Math.random() the model draws, as <<u1, u2, u3, u4>>.
RandomDraws ==
    { <<3, 0, 49999, 149999>>, <<162347, 31416, 27183, 11>> }

(***************************************************************************)
(* One invocation of fetchNiftyPrice (a tick), script.js:156-186.          *)
(*   pc     where the invocation stands: awaiting the live request, the    *)
(*          historical request, about to run the catch block (line 174),   *)
(*          about to run generateMockData (line 183, called without        *)
(*          await), ended, or ended with a rejected promise;               *)
(*   phase  which call of getLastTradingDayData is awaited: line 171       *)
(*          ("try"), line 179 ("catch") or line 296 ("mock").              *)
(* The other fields record what the invocation did.                        *)
(***************************************************************************)
\* The invocations of fetchNiftyPrice a behaviour may hold.
Ticks == DOMAIN ticks

NoTick ==
    [pc |-> "unused", phase |-> "try", startedOpen |-> FALSE,
     liveReqs |-> 0, histReqs |-> 0, storeReads |-> 0,
     renders |-> 0, renderKind |-> "none", rendered |-> Null,
     liveRet |-> "none",
     histCache |-> "none", histRemote |-> "none",
     histRet |-> "none", histValue |-> Null]

\* The program state one step of a tick reads and writes.
State(t) ==
    [ls |-> localStorage, cd |-> currentData, dom |-> dom, ph |-> priceHistory,
     ap |-> appended, chart |-> chart, tick |-> ticks[t]]

\* A render's result put into the state; the tick goes to `onThrow` when
\* the render threw.
Rendered(S, r, data, kind, onThrow) ==
    [S EXCEPT !.cd = r.currentData, !.dom = r.dom, !.ph = r.priceHistory,
              !.ap = r.appended, !.chart = r.chart,
              !.tick = [S.tick EXCEPT
                           !.pc = IF r.threw THEN onThrow ELSE "done",
                           !.renders = IF r.threw THEN @ ELSE @ + 1,
                           !.renderKind = IF r.threw THEN @ ELSE kind,
                           !.rendered = IF r.threw THEN @ ELSE data]]

\* An error thrown in the try block is caught at line 174; one thrown in
\* the catch block or in generateMockData rejects a promise nobody handles.
OnThrow(phase) == IF phase = "try" THEN "catch" ELSE "failed"

\* getLastTradingDayData has returned `result` in S: lines 172, 180, 297.
AfterLastTradingDayData(S, result) ==
    Rendered(S,
             updateUIWithLastTradingDay(result, S.dom, S.ph, S.ap, S.chart),
             result, "lastDay", OnThrow(S.tick.phase))

\* getLastTradingDayData, script.js:220-237, up to its return or to the
\* request of fetchLastTradingDayFromAPI.  A stored empty string is not
\* modelled.
getLastTradingDayData(S) ==
    LET T == [S EXCEPT !.tick.storeReads = @ + 1, !.tick.histRemote = "none"]
    IN  IF S.ls.kind = "absent"
        THEN [T EXCEPT !.tick.histCache = "absent",
                       !.tick.histRemote = "pending", !.tick.histRet = "pending",
                       !.tick.histValue = Null,
                       !.tick.histReqs = @ + 1, !.tick.pc = "awaitHist"]
        ELSE LET parsed == JSONparse(S.ls)
                 result == IF parsed.threw THEN getDefaultLastTradingDayData
                           ELSE parsed.value
             IN  AfterLastTradingDayData(
                     [T EXCEPT !.tick.histCache =
                                   IF parsed.threw THEN "corrupt" ELSE "hit",
                               !.tick.histRet =
                                   IF parsed.threw THEN "default" ELSE "returned",
                               !.tick.histValue = result],
                     result)

\* The response to the request of fetchLastTradingDayFromAPI arrives:
\* lines 247-271, the return of line 232, then line 172, 180 or 297.
histResponse(S, resp) ==
    LET got == fetchLastTradingDayFromAPI(resp, S.ls)
    IN  AfterLastTradingDayData(
            [S EXCEPT !.ls = got.stored,
                      !.tick.histRemote = IF resp.kind = "payload" THEN "ok" ELSE "failed",
                      !.tick.histRet = "returned",
                      !.tick.histValue = got.value],
            got.value)

\* fetchNiftyPrice with the open-market branch taken whatever line 158
\* observes.
fetchNiftyPriceLiveAlways(S, open) ==
    [S EXCEPT !.tick = [NoTick EXCEPT !.pc = "awaitLive", !.startedOpen = open,
                                      !.liveReqs = 1, !.liveRet = "pending"]]

\* fetchNiftyPrice from its call to its first await or its end.
fetchNiftyPrice(S, open) ==
    IF open
    THEN [S EXCEPT !.tick = [NoTick EXCEPT !.pc = "awaitLive", !.startedOpen = TRUE,
                                           !.liveReqs = 1, !.liveRet = "pending"]]
    ELSE getLastTradingDayData([S EXCEPT !.tick = [NoTick EXCEPT !.pc = "start"]])

\* The response to the request of tryFetchFromFinance arrives: lines
\* 196-214, then lines 164-168.
liveResponse(S, resp) ==
    LET data == tryFetchFromFinance(resp)
        T == [S EXCEPT !.tick.liveRet = IF data.kind = "null" THEN "null" ELSE "quote"]
    IN  IF data.kind = "null"
        THEN [T EXCEPT !.tick.pc = "catch"]
        ELSE Rendered(T, updateUI(data, T.dom, T.ph, T.ap, T.chart), data, "live",
                      "catch")

\* The catch block, lines 174-185.
catchBlock(S, open) ==
    IF ~open
    THEN getLastTradingDayData([S EXCEPT !.tick.phase = "catch"])
    ELSE [S EXCEPT !.tick.pc = "mock"]

\* generateMockData without the check of line 294.
generateMockDataUnchecked(S, open, u) ==
    IF S.cd.kind = "null"
    THEN [S EXCEPT !.tick.pc = "failed"]
    ELSE LET newData == mockQuote(S.cd, u[1], u[2], u[3], u[4])
         IN  Rendered(S, updateUI(newData, S.dom, S.ph, S.ap, S.chart), newData,
                      "mock", "failed")

\* generateMockData, script.js:293-320, to its first await or its end.
\* Reading currentData.price throws when currentData is null.
generateMockData(S, open, u) ==
    IF ~open
    THEN getLastTradingDayData([S EXCEPT !.tick.phase = "mock"])
    ELSE IF S.cd.kind = "null"
    THEN [S EXCEPT !.tick.pc = "failed"]
    ELSE LET newData == mockQuote(S.cd, u[1], u[2], u[3], u[4])
         IN  Rendered(S, updateUI(newData, S.dom, S.ph, S.ap, S.chart), newData,
                      "mock", "failed")

\* The state variables after a step of tick t.
Step(t, S) ==
    /\ localStorage' = S.ls
    /\ currentData' = S.cd
    /\ dom' = S.dom
    /\ priceHistory' = S.ph
    /\ appended' = S.ap
    /\ chart' = S.chart
    /\ ticks' = [ticks EXCEPT ![t] = S.tick]

(***************************************************************************)
(* The state after the script has been evaluated.                          *)
(***************************************************************************)
Instant(day, hours, minutes) == [day |-> day, minute |-> hours * 60 + minutes]

\* Instants (UTC) of the clock: Tuesday 10:00 IST and Tuesday 15:30 IST.
ClockSamples == {Instant(2, 4, 30), Instant(2, 10, 0)}

\* What an earlier session of the program left under the key: nothing, or
\* the record line 264 wrote; and a string that is not JSON.
StoredAtStart ==
    { Absent, Corrupt,
      JSONstringify(fetchLastTradingDayFromAPI(Response("payload", FullHistPayload),
                                               Absent).value) }

InitProgram ==
    /\ loaded = FALSE
    /\ statusText = ""
    /\ currentData = Quote(Num(0), Num(0), Num(0), Num(0), Num(0), Num(0), Num(0), FALSE)
    /\ priceHistory = <<>>
    /\ dom = BlankDom
    /\ chart = [created |-> FALSE, labels |-> 0]
    /\ ticks = [t \in 1..MaxTicks |-> NoTick]
    /\ appended = <<>>

NoCall == [fn |-> "none", arg |-> Response("none", NoLivePayload), done |-> FALSE,
           ret |-> Null]

Init ==
    /\ now \in ClockSamples
    /\ localStorage \in StoredAtStart
    /\ call = NoCall
    /\ InitProgram

(***************************************************************************)
(* The handlers.                                                           *)
(***************************************************************************)
\* updateMarketStatus, script.js:64-75.
updateMarketStatus(open) == IF open THEN "Market Open" ELSE "Market Closed"

NextTick == CHOOSE t \in Ticks : ticks[t].pc = "unused" /\ \A u \in Ticks : ticks[u].pc = "unused" => t <= u

CanStart == \E t \in Ticks : ticks[t].pc = "unused"

\* JavaScript runs a callback to its end: from a throw to the end of the
\* catch block and of generateMockData's synchronous part no other
\* callback runs.  Only the clock moves.
Idle == \A t \in Ticks : ticks[t].pc \notin {"catch", "mock"}

StartTick == Step(NextTick, fetchNiftyPrice(State(NextTick), isMarketOpen(now)))

\* script.js:25-36: the first fetch, then setupAutoRefresh.
DOMContentLoaded ==
    /\ ~loaded
    /\ Idle
    /\ CanStart
    /\ loaded' = TRUE
    /\ StartTick
    /\ statusText' = updateMarketStatus(isMarketOpen(now))
    /\ UNCHANGED <<now, call>>

\* script.js:29: a click on the refresh button.
RefreshClick ==
    /\ loaded
    /\ Idle
    /\ CanStart
    /\ StartTick
    /\ UNCHANGED <<now, loaded, statusText, call>>

\* script.js:144-149: the callback of the timer of setupAutoRefresh.
AutoRefreshCallback ==
    /\ loaded
    /\ Idle
    /\ statusText' = updateMarketStatus(isMarketOpen(now))
    /\ IF isMarketOpen(now)
       THEN CanStart /\ StartTick
       ELSE UNCHANGED <<localStorage, currentData, dom, priceHistory, appended,
                        chart, ticks>>
    /\ UNCHANGED <<now, loaded>>

AutoRefreshTimer == AutoRefreshCallback /\ UNCHANGED call

\* script.js:471-480: the timer of the module.  It is taken to fire after
\* DOMContentLoaded.
ModuleCallbackUnconditional ==
    /\ loaded
    /\ Idle
    /\ CanStart
    /\ StartTick
    /\ UNCHANGED <<now, loaded, statusText>>

ModuleCallback ==
    /\ loaded
    /\ Idle
    /\ IF ~isMarketOpen(now)
       THEN CanStart /\ StartTick
       ELSE UNCHANGED <<localStorage, currentData, dom, priceHistory, appended,
                        chart, ticks>>
    /\ UNCHANGED <<now, loaded, statusText>>

ModuleTimer == ModuleCallback /\ UNCHANGED call

LiveResponse(t) ==
    /\ ticks[t].pc = "awaitLive"
    /\ Idle
    /\ \E resp \in LiveResponses : Step(t, liveResponse(State(t), resp))
    /\ UNCHANGED <<now, loaded, statusText, call>>

HistResponse(t) ==
    /\ ticks[t].pc = "awaitHist"
    /\ Idle
    /\ \E resp \in HistResponses : Step(t, histResponse(State(t), resp))
    /\ UNCHANGED <<now, loaded, statusText, call>>

CatchBlock(t) ==
    /\ ticks[t].pc = "catch"
    /\ Step(t, catchBlock(State(t), isMarketOpen(now)))
    /\ UNCHANGED <<now, loaded, statusText, call>>

GenerateMockData(t) ==
    /\ ticks[t].pc = "mock"
    /\ \E u \in RandomDraws : Step(t, generateMockData(State(t), isMarketOpen(now), u))
    /\ UNCHANGED <<now, loaded, statusText, call>>

\* Time passes.
ClockAdvance ==
    /\ now' \in ClockSamples \ {now}
    /\ UNCHANGED <<loaded, statusText, localStorage, currentData, priceHistory,
                   dom, chart, ticks, call, appended>>

Next ==
    \/ DOMContentLoaded
    \/ RefreshClick
    \/ AutoRefreshTimer
    \/ ModuleTimer
    \/ \E t \in Ticks : LiveResponse(t)
    \/ \E t \in Ticks : HistResponse(t)
    \/ \E t \in Ticks : CatchBlock(t)
    \/ \E t \in Ticks : GenerateMockData(t)
    \/ ClockAdvance

Spec == Init /\ [][Next]_vars

(***************************************************************************)
(* The calendar alone: the clock runs through a week minute by minute and  *)
(* isMarketOpen is called at every minute.                                 *)
(***************************************************************************)
isMarketOpenCall(t) == [fn |-> "isMarketOpen", arg |-> t, done |-> TRUE, ret |-> isMarketOpen(t)]

InitCalendar ==
    /\ now = Instant(0, 0, 0)
    /\ localStorage = Absent
    /\ call = isMarketOpenCall(now)
    /\ InitProgram

ClockMinute ==
    /\ now' = IF now.minute + 1 = MinutesPerDay
              THEN [day |-> (now.day + 1) % 7, minute |-> 0]
              ELSE [now EXCEPT !.minute = @ + 1]
    /\ call' = isMarketOpenCall(now')
    /\ UNCHANGED <<loaded, statusText, localStorage, currentData, priceHistory,
                   dom, chart, ticks, appended>>

NextCalendar == ClockMinute

SpecCalendar == InitCalendar /\ [][NextCalendar]_vars

(***************************************************************************)
(* The history alone: addToHistory is called MaxAppends times on a run of  *)
(* prices that starts at `first` and moves by `step`.                      *)
(***************************************************************************)
HistoryRuns ==
    {[first |-> f, step |-> d] : f \in {10, 24250000, 24280500}, d \in {-10, 0, 12345}}

InitHistory ==
    /\ now = Instant(2, 4, 30)
    /\ localStorage = Absent
    /\ \E run \in HistoryRuns :
          call = [fn |-> "addToHistory", arg |-> run, done |-> FALSE, ret |-> Null]
    /\ InitProgram

HistoryAppend ==
    /\ Len(appended) < MaxAppends
    /\ LET price == call.arg.first + Len(appended) * call.arg.step
       IN  /\ priceHistory' = addToHistory(priceHistory, price)
           /\ appended' = Append(appended, price)
    /\ UNCHANGED <<now, loaded, statusText, localStorage, currentData, dom, chart,
                   ticks, call>>

NextHistory == HistoryAppend

SpecHistory == InitHistory /\ [][NextHistory]_vars

(***************************************************************************)
(* fetchLastTradingDayFromAPI alone, on every response whose fields are    *)
(* each missing, without raw, zero or a number.                            *)
(***************************************************************************)
FieldValues(v) == {Missing, NoRaw, Raw(0), Raw(v)}

AllHistResponses ==
    {Response(k, NoHistPayload) : k \in {"throw", "notok", "badjson", "noresult"}}
    \cup
    {Response("payload", HistPayload(p, ch, cp, h, l, o, c)) :
        p \in FieldValues(24301250), ch \in FieldValues(-20750),
        cp \in FieldValues(-85), h \in FieldValues(26277350),
        l \in FieldValues(21743650), o \in FieldValues(24322000),
        c \in FieldValues(24322000)}

InitHistorical ==
    /\ now = Instant(2, 10, 0)
    /\ localStorage = Absent
    /\ \E resp \in AllHistResponses :
          call = [fn |-> "fetchLastTradingDayFromAPI", arg |-> resp, done |-> FALSE,
                  ret |-> Null]
    /\ InitProgram

HistoricalCall ==
    /\ ~call.done
    /\ LET got == fetchLastTradingDayFromAPI(call.arg, localStorage)
       IN  /\ call' = [call EXCEPT !.done = TRUE, !.ret = got.value]
           /\ localStorage' = got.stored
    /\ UNCHANGED <<now, loaded, statusText, currentData, priceHistory, dom, chart,
                   ticks, appended>>

NextHistorical == HistoricalCall

SpecHistorical == InitHistorical /\ [][NextHistorical]_vars

(***************************************************************************)
(* tryFetchFromFinance alone, on every response whose fields are each      *)
(* missing, without raw or a number.                                       *)
(***************************************************************************)
LiveFieldValues(v) == {Missing, NoRaw, Raw(v)}

AllLiveResponses ==
    {Response(k, NoLivePayload) : k \in {"throw", "notok", "badjson", "noresult"}}
    \cup
    {Response("payload", LivePayload(p, ch, cp, h, l, o, c)) :
        p \in LiveFieldValues(24312346), ch \in LiveFieldValues(31846),
        cp \in LiveFieldValues(131), h \in LiveFieldValues(24401003),
        l \in LiveFieldValues(24188507), o \in LiveFieldValues(24250001),
        c \in LiveFieldValues(24280500)}

InitLive ==
    /\ now = Instant(2, 4, 30)
    /\ localStorage = Absent
    /\ \E resp \in AllLiveResponses :
          call = [fn |-> "tryFetchFromFinance", arg |-> resp, done |-> FALSE,
                  ret |-> Null]
    /\ InitProgram

LiveCall ==
    /\ ~call.done
    /\ call' = [call EXCEPT !.done = TRUE, !.ret = tryFetchFromFinance(call.arg)]
    /\ UNCHANGED <<now, loaded, statusText, localStorage, currentData, priceHistory,
                   dom, chart, ticks, appended>>

NextLive == LiveCall

SpecLive == InitLive /\ [][NextLive]_vars

(***************************************************************************)
(* generateMockData alone, script.js:293-320: one call with the market     *)
(* open, from every kind of currentData a render can leave behind and the  *)
(* ends and the middle of the range of each Math.random() value.           *)
(***************************************************************************)
MockBases ==
    {Null} \cup
    {Quote(p, Num(0), Num(0), Num(0), Num(0), Num(0), c, FALSE) :
        p \in {Num(0), Undefined, Num(24280500), Num(24312346), Num(24312344)},
        c \in {Num(0), Undefined, Num(24280503), Num(24280500)}}

MockDraws ==
    {<<u1, u2, u3, u4>> : u1 \in {0, 1, 100000, 162347, 199999},
                          u2 \in {0, 31416, 49999}, u3 \in {0, 27183, 49999},
                          u4 \in {0, 75000, 149999}}

InitMock ==
    /\ now = Instant(2, 4, 30)
    /\ localStorage = Absent
    /\ loaded = TRUE
    /\ statusText = ""
    /\ currentData \in MockBases
    /\ priceHistory = <<>>
    /\ dom = BlankDom
    /\ chart = [created |-> FALSE, labels |-> 0]
    /\ ticks = [t \in 1..MaxTicks |->
                   IF t = 1
                   THEN [NoTick EXCEPT !.pc = "mock", !.startedOpen = TRUE,
                                       !.liveReqs = 1, !.liveRet = "null"]
                   ELSE NoTick]
    /\ appended = <<>>
    /\ call = [fn |-> "generateMockData", arg |-> currentData, done |-> FALSE,
               ret |-> Null]

MockCall ==
    /\ ~call.done
    /\ \E u \in MockDraws :
          LET S == generateMockData(State(1), isMarketOpen(now), u)
          IN  /\ localStorage' = S.ls
              /\ currentData' = S.cd
              /\ dom' = S.dom
              /\ priceHistory' = S.ph
              /\ appended' = S.ap
              /\ chart' = S.chart
              /\ ticks' = [ticks EXCEPT ![1] = S.tick]
              /\ call' = [call EXCEPT !.done = TRUE, !.ret = S.tick.rendered]
    /\ UNCHANGED <<now, loaded, statusText>>

NextMock == MockCall

SpecMock == InitMock /\ [][NextMock]_vars

(***************************************************************************)
(* The closed market alone: the clock stays at Tuesday 15:30 IST, the      *)
(* store starts empty, and the handlers that start a tick or resume one in *)
(* a closed market run for MaxClosedTicks invocations.                     *)
(***************************************************************************)
InitClosed ==
    /\ now = Instant(2, 10, 0)
    /\ localStorage = Absent
    /\ call = NoCall
    /\ loaded = FALSE
    /\ statusText = ""
    /\ currentData = Quote(Num(0), Num(0), Num(0), Num(0), Num(0), Num(0), Num(0), FALSE)
    /\ priceHistory = <<>>
    /\ dom = BlankDom
    /\ chart = [created |-> FALSE, labels |-> 0]
    /\ ticks = [t \in 1..MaxClosedTicks |-> NoTick]
    /\ appended = <<>>

NextClosed ==
    \/ DOMContentLoaded
    \/ RefreshClick
    \/ AutoRefreshTimer
    \/ ModuleTimer
    \/ \E t \in Ticks : HistResponse(t)
    \/ \E t \in Ticks : CatchBlock(t)

SpecClosed == InitClosed /\ [][NextClosed]_vars

(***************************************************************************)
(* The two interval timers, script.js:144-149 and 471-480, period by       *)
(* period: both have the interval 5000, so each period runs the callback   *)
(* of each once, in either order.  call records the period: the callbacks  *)
(* that have run, the market status each of them observed and the ones     *)
(* that started an invocation of fetchNiftyPrice.                          *)
(***************************************************************************)
NewPeriod == [fn |-> "setInterval", ran |-> {}, observed |-> {}, started |-> {}]

InitTimers ==
    /\ now \in ClockSamples
    /\ localStorage = Absent
    /\ call = NewPeriod
    /\ loaded = FALSE
    /\ statusText = ""
    /\ currentData = Quote(Num(0), Num(0), Num(0), Num(0), Num(0), Num(0), Num(0), FALSE)
    /\ priceHistory = <<>>
    /\ dom = BlankDom
    /\ chart = [created |-> FALSE, labels |-> 0]
    /\ ticks = [t \in 1..MaxTimerTicks |-> NoTick]
    /\ appended = <<>>

TimerRan(timer) ==
    call' = [call EXCEPT !.ran = @ \cup {timer},
                         !.observed = @ \cup {isMarketOpen(now)},
                         !.started = IF ticks' # ticks THEN @ \cup {timer} ELSE @]

AutoRefreshPeriod ==
    /\ "setupAutoRefresh" \notin call.ran
    /\ AutoRefreshCallback
    /\ TimerRan("setupAutoRefresh")

ModulePeriod ==
    /\ "module" \notin call.ran
    /\ ModuleCallback
    /\ TimerRan("module")

PeriodEnd ==
    /\ call.ran = {"setupAutoRefresh", "module"}
    /\ CanStart
    /\ call' = NewPeriod
    /\ UNCHANGED <<now, loaded, statusText, localStorage, currentData,
                   priceHistory, dom, chart, ticks, appended>>

NextTimers ==
    \/ DOMContentLoaded
    \/ AutoRefreshPeriod
    \/ ModulePeriod
    \/ PeriodEnd
    \/ \E t \in Ticks : LiveResponse(t)
    \/ \E t \in Ticks : HistResponse(t)
    \/ \E t \in Ticks : CatchBlock(t)
    \/ \E t \in Ticks : GenerateMockData(t)
    \/ ClockAdvance

SpecTimers == InitTimers /\ [][NextTimers]_vars

(***************************************************************************)
(* The claims.                                                             *)
(***************************************************************************)
Ended(t) == ticks[t].pc \in {"done", "failed"}

\* C1: every call of getLastTradingDayData that has returned, whatever the
\* cache held and whatever the remote lookup did, returned a record with
\* the seven numeric fields of a quote.
C1_LastSessionAlwaysValid ==
    \A t \in Ticks :
        ticks[t].histRet \in {"returned", "default"} => IsValidRecord(ticks[t].histValue)

\* C2: a tick that has ended completed exactly one render and did not end
\* with an unhandled error.
C2_EveryTickRenders ==
    \A t \in Ticks : Ended(t) => ticks[t].pc = "done" /\ ticks[t].renders = 1

\* C3: a tick that started with the market closed, found the cache absent
\* and saw the remote lookup fail has rendered the hardcoded default quote
\* as a last-trading-day quote.
C3_DefaultQuoteRendered ==
    \A t \in Ticks :
        (/\ Ended(t)
         /\ ~ticks[t].startedOpen
         /\ ticks[t].histCache = "absent"
         /\ ticks[t].histRemote = "failed")
        => /\ ticks[t].renders = 1
           /\ ticks[t].renderKind = "lastDay"
           /\ ticks[t].rendered = getDefaultLastTradingDayData

\* C4: at most one tick is awaiting a network request at any time.
C4_TicksSerialized ==
    Cardinality({t \in Ticks : ticks[t].pc \in {"awaitLive", "awaitHist"}}) <= 1

\* The last n elements of a sequence.
LastN(q, n) == SubSeq(q, Len(q) - n + 1, Len(q))

Min(a, b) == IF a < b THEN a ELSE b

\* C5: priceHistory holds at most maxHistoryLength (20) prices, and they
\* are the last min(k, 20) of the k prices appended so far, in append
\* order.
C5_HistoryIsLastTwenty ==
    /\ Len(priceHistory) <= 20
    /\ priceHistory = LastN(appended, Min(Len(appended), 20))

\* C5's case: five prices past the capacity have been appended and the
\* oldest ones are gone.
C5_Witness ==
    /\ Len(appended) = 25
    /\ Len(priceHistory) = 20
    /\ priceHistory[1] = appended[6]
    /\ priceHistory[1] # appended[1]

\* IST is UTC+05:30, so 09:15 and 15:30 IST are 03:45 and 10:00 UTC of the
\* same day.
UtcMinute(hours, minutes) == hours * 60 + minutes

\* C6: isMarketOpen is true exactly on Monday to Friday from 09:15 to 15:29
\* IST: never on Saturday or Sunday, true at 09:15, 10:00 and 15:29, false
\* at 08:00, 15:30 and 15:31.
C6_MarketHours ==
    LET t == call.arg
        weekday == t.day \in 1..5
        ist(h, m) == t.minute = UtcMinute(h, m) - 330
        \* Saturday 00:00 IST is Friday 18:30 UTC
        istWeekend == \/ t.day = 5 /\ t.minute >= UtcMinute(18, 30)
                      \/ t.day = 6
                      \/ t.day = 0 /\ t.minute < UtcMinute(18, 30)
    IN  /\ call.fn = "isMarketOpen"
        /\ call.ret <=> (weekday /\ t.minute >= UtcMinute(3, 45) /\ t.minute < UtcMinute(10, 0))
        /\ istWeekend => ~call.ret
        /\ (weekday /\ (ist(9, 15) \/ ist(10, 0) \/ ist(15, 29))) => call.ret
        /\ (weekday /\ (ist(8, 0) \/ ist(15, 30) \/ ist(15, 31))) => ~call.ret

\* C6's case: the call at exactly 15:30 IST on a Friday, which is closed.
C6_Witness ==
    /\ call.fn = "isMarketOpen"
    /\ call.arg = Instant(5, 10, 0)
    /\ ~call.ret

\* The field of the historical payload each field of the record is read
\* from, and its default.
HistSource(f) ==
    CASE f = "price" -> "regularMarketPrice"
      [] f = "change" -> "regularMarketChange"
      [] f = "changePercent" -> "regularMarketChangePercent"
      [] f = "high" -> "fiftyTwoWeekHigh"
      [] f = "low" -> "fiftyTwoWeekLow"
      [] f = "open" -> "regularMarketOpen"
      [] f = "close" -> "regularMarketPreviousClose"

HistDefault(f) ==
    CASE f = "price" -> 24250000
      [] f = "change" -> 0
      [] f = "changePercent" -> 0
      [] f = "high" -> 25000000
      [] f = "low" -> 23000000
      [] f = "open" -> 24000000
      [] f = "close" -> 24250000

\* C7: after a successful remote lookup every field of the record is the
\* returned value when the payload has one, and its default otherwise.
C7_PerFieldDefaulting ==
    (call.fn = "fetchLastTradingDayFromAPI" /\ call.done /\ call.arg.kind = "payload")
    => \A f \in QuoteFields :
          LET x == call.arg.p[HistSource(f)]
          IN  call.ret[f] = IF x.t = "number" THEN Num(x.v) ELSE Num(HistDefault(f))

\* |a / 1000 - (ch / cl) * 100| <= 0.000001 for integers a, ch and cl # 0,
\* decided on the quotient to eight digits and its remainder.
PercentWithinMicro(a, ch, cl) ==
    LET s == ScaledQuot(Abs(ch), Abs(cl), 8)
        A == Abs(a) * 1000
        sameSign == (a = 0) \/ (ch = 0) \/ (Sign(a) = Sign(ch) * Sign(cl))
    IN  IF sameSign
        THEN /\ A - 1 <= s.q
             /\ (s.q < A + 1 \/ (s.q = A + 1 /\ s.r = 0))
        ELSE A + s.q < 1 \/ (A + s.q = 1 /\ s.r = 0)

\* C8: a tick that started with the market open and whose live request
\* failed has rendered a mock quote, not marked stale, with
\* change = price - close and changePercent = change / close * 100 within
\* 0.000001.
C8_MockQuoteConsistent ==
    \A t \in Ticks :
        (Ended(t) /\ ticks[t].startedOpen /\ ticks[t].liveRet = "null"
         /\ ticks[t].histCache = "none")
        => /\ ticks[t].renderKind = "mock"
           /\ LET q == ticks[t].rendered
              IN  /\ q.change.v = q.price.v - q.close.v
                  /\ PercentWithinMicro(q.changePercent.v, q.change.v, q.close.v)

\* C9: tryFetchFromFinance returns a quote only for a payload in which
\* each of the seven fields carries a number, and null otherwise.
C9_QuoteOnlyFromFullPayload ==
    (call.fn = "tryFetchFromFinance" /\ call.done)
    => (call.ret.kind = "object"
        <=> (call.arg.kind = "payload"
             /\ \A f \in LiveFields : call.arg.p[f].t = "number"))

\* C10: a call of getLastTradingDayData that found the cache absent or
\* unparseable has asked the remote lookup, and one that returned the
\* hardcoded default did so after the remote lookup failed.
C10_RemoteBeforeDefault ==
    \A t \in Ticks :
        /\ ticks[t].histCache \in {"absent", "corrupt"} => ticks[t].histRemote # "none"
        /\ ticks[t].histRet = "default" => ticks[t].histRemote = "failed"

\* C11: a mock quote is rendered only in a step taken while the market is
\* open, and a tick whose catch block or generateMockData runs while the
\* market is closed goes to getLastTradingDayData and renders no mock
\* quote in that step.
C11_MockOnlyWhileOpen ==
    [][\A t \in Ticks :
          /\ (ticks'[t].renderKind = "mock" /\ ticks[t].renderKind # "mock")
             => isMarketOpen(now)
          /\ (ticks[t].pc \in {"catch", "mock"} /\ ticks'[t] # ticks[t]
              /\ ~isMarketOpen(now))
             => /\ ticks'[t].storeReads = ticks[t].storeReads + 1
                /\ ticks'[t].pc # "mock"
                /\ ticks'[t].renderKind # "mock"]_vars

\* C11's case: the market closed between the catch block and
\* generateMockData, and the tick rendered the last trading day.
C11_Witness ==
    \E t \in Ticks :
        /\ ticks[t].phase = "mock"
        /\ ticks[t].pc = "done"
        /\ ticks[t].renderKind = "lastDay"

\* C12: a tick whose request resolves after a later-started tick has
\* already rendered is dropped: the step that resumes it leaves
\* currentData, priceHistory and the cache as they were.
C12_LateTickDropped ==
    [][\A t, u \in Ticks :
          (/\ t < u
           /\ ticks[u].renders > 0
           /\ ticks[t].pc \in {"awaitLive", "awaitHist"}
           /\ ticks'[t] # ticks[t])
          => /\ currentData' = currentData
             /\ appended' = appended
             /\ priceHistory' = priceHistory
             /\ localStorage' = localStorage]_vars

\* C13: the stored lastTradingDayData changes only in the step in which a
\* tick's remote historical lookup returns a success response, and the
\* new value is the record that lookup built; a cache hit, a failed
\* lookup, the default, the live path and mock generation leave it as it
\* was.
C13_CacheWrittenOnlyByRemoteSuccess ==
    [][localStorage' # localStorage
       => \E t \in Ticks :
              /\ ticks[t].pc = "awaitHist"
              /\ ticks[t].histRemote = "pending"
              /\ ticks'[t].histRemote = "ok"
              /\ localStorage' = JSONstringify(ticks'[t].histValue)]_vars

\* C13's case: a successful remote lookup has written the store, and
\* ticks have also ended on a cache hit, a failed lookup, the default, a
\* live quote or a mock quote.
C13_Witness ==
    /\ \E t \in Ticks :
           /\ ticks[t].histRemote = "ok"
           /\ localStorage = JSONstringify(ticks[t].histValue)
    /\ \E t \in Ticks :
           /\ Ended(t)
           /\ \/ ticks[t].histCache = "hit"
              \/ ticks[t].histRemote = "failed"
              \/ ticks[t].renderKind \in {"live", "mock"}

\* C15: within one invocation of fetchNiftyPrice the historical store is
\* read at most once and the live and the historical source receive at
\* most one request each.
C15_FallbackAtMostOnce ==
    \A t \in Ticks :
        /\ ticks[t].storeReads <= 1
        /\ ticks[t].liveReqs <= 1
        /\ ticks[t].histReqs <= 1

\* C18: currentData is a quote object in every reachable state.
C18_CurrentDataNeverNull == currentData.kind = "object"

\* C20: whenever priceHistory is non-empty and no callback is part-way
\* through, its newest entry is currentData.price: currentData is replaced
\* only by a render that also appends the price, and a render that fails
\* leaves both as they were.
C20_CurrentDataMatchesHistory ==
    (Len(priceHistory) > 0 /\ Idle)
    => /\ currentData.kind = "object"
       /\ currentData.price = Num(priceHistory[Len(priceHistory)])

\* C16: a tick that observed the market closed at its start never requests
\* the live source, and whatever it renders is a last-session record
\* rendered through updateUIWithLastTradingDay, whose price the render
\* appends to priceHistory, even if the market opens while it awaits.
C16_ClosedStartRendersLastSession ==
    [][\A t \in Ticks :
          (ticks'[t].pc # "unused" /\ ~ticks'[t].startedOpen)
          => /\ ticks'[t].liveReqs = 0
             /\ ticks'[t].liveRet = "none"
             /\ ticks'[t].renderKind \in {"none", "lastDay"}
             /\ ticks'[t].renders > ticks[t].renders
                => /\ ticks'[t].renderKind = "lastDay"
                   /\ ticks'[t].rendered.isLastTradingDay
                   /\ currentData' = ticks'[t].rendered
                   /\ appended' = Append(appended, ticks'[t].rendered.price.v)
                   /\ priceHistory' = addToHistory(priceHistory,
                                                   ticks'[t].rendered.price.v)]_vars

\* C16's case: a tick that started with the market closed found it open
\* in its catch block and still rendered the last trading day.
C16_Witness ==
    \E t \in Ticks :
        /\ ~ticks[t].startedOpen
        /\ ticks[t].phase = "mock"
        /\ ticks[t].renders = 1
        /\ ticks[t].renderKind = "lastDay"

\* The last known value of a field: the value, or d when it is zero or
\* missing.
LastKnown(x, d) == IF IsNum(x) /\ x.v # 0 THEN x.v ELSE d

\* The spread of a mock quote around its price: high >= price + 100,
\* low <= price - 100, open within 75 of the price, low < open < high,
\* and close the last known close or else the base price.
MockSpread(q, base, prev) ==
    /\ q.high.v >= q.price.v + 100000
    /\ q.low.v <= q.price.v - 100000
    /\ Abs(q.open.v - q.price.v) <= 75000
    /\ q.low.v < q.open.v
    /\ q.open.v < q.high.v
    /\ q.close = Num(LastKnown(prev.close, base))

\* C17 as stated: every mock quote generated while the market is open has
\* a price within 100 of the last known price (24250 when that is zero or
\* missing), with the spread above.
C17_MockWithinHundred ==
    (call.done /\ ticks[1].renderKind = "mock")
    => LET base == LastKnown(call.arg.price, 24250000)
       IN  /\ Abs(call.ret.price.v - base) <= 100000
           /\ MockSpread(call.ret, base, call.arg)

\* C17, amended: the price is within 100.005 of the last known price (the
\* perturbed price is rounded to two decimals after the +/-100 is added),
\* with the spread above.
C17_MockWithinHundredRounded ==
    (call.done /\ ticks[1].renderKind = "mock")
    => LET base == LastKnown(call.arg.price, 24250000)
       IN  /\ Abs(call.ret.price.v - base) <= 100005
           /\ MockSpread(call.ret, base, call.arg)
           /\ currentData = call.ret

\* C17's case: a mock quote was generated from a last known price with
\* sub-cent digits and the rounding took it past 100.
C17_Witness ==
    /\ call.done
    /\ ticks[1].renderKind = "mock"
    /\ Abs(call.ret.price.v - LastKnown(call.arg.price, 24250000)) > 100000

\* C14: a read of the store that finds a parseable record returns exactly
\* that record, sends no historical request and leaves the store as it
\* was; and all the ticks that started after the store was populated,
\* with the market closed throughout, have rendered the same quote.
C14_CacheHitSameQuote ==
    [][/\ \A t \in Ticks :
              (ticks'[t].storeReads > ticks[t].storeReads
               /\ localStorage.kind = "json")
              => /\ ticks'[t].histCache = "hit"
                 /\ ticks'[t].histValue = localStorage.value
                 /\ ticks'[t].histReqs = ticks[t].histReqs
                 /\ localStorage' = localStorage
       /\ \A t, u \in Ticks :
              (/\ ticks'[t].histCache = "hit" /\ ticks'[t].storeReads = 1
               /\ ticks'[u].histCache = "hit" /\ ticks'[u].storeReads = 1
               /\ ticks'[t].renders = 1 /\ ticks'[u].renders = 1)
              => ticks'[t].rendered = ticks'[u].rendered]_vars

====
